---- MODULE Spec2Model ----
(***************************************************************************)
(* Model of qiskit/extensions/standard/swap.py: the SWAP gate, the         *)
(* controlled-SWAP gate, its deprecated alias FredkinGate, the metaclass   *)
(* CSwapMeta and the circuit convenience methods swap, cswap and fredkin.  *)
(*                                                                         *)
(* Gate instances live in a heap (gates); an instance is a record of the   *)
(* attributes the constructors set.  Python's None is the empty sequence   *)
(* <<>> and a present value v is <<v>> where the attribute is optional     *)
(* (base_gate, ctrl_state, label); a stored definition is the rule list    *)
(* itself, which is never empty, so <<>> is None there as well.            *)
(* Matrices are sequences of rows; qubit 0 is the least significant bit of *)
(* a basis-state index.                                                    *)
(***************************************************************************)
EXTENDS Integers, Sequences, FiniteSets

VARIABLES gates, circuit, warnings, fredkinCalls, result

vars == <<gates, circuit, warnings, fredkinCalls, result>>

(***************************************************************************)
(* Bounds of the model.                                                    *)
(***************************************************************************)
\* gate objects constructed in one run: heap instances plus circuit instructions
MaxObjects == 2
\* largest num_ctrl_qubits passed to control()
MaxCtrlQubits == 2

\* the qubits of the circuit the convenience methods are called on
CircuitQubits == {0, 1, 2}
\* amplitudes of the state vectors a matrix is applied to
Amplitudes == {-1, 0, 1}

Classes == {"SwapGate", "CSwapGate", "FredkinGate"}

None == <<>>

(***************************************************************************)
(* Bit and matrix arithmetic.                                              *)
(***************************************************************************)
RECURSIVE Pow2(_)
Pow2(n) == IF n = 0 THEN 1 ELSE 2 * Pow2(n - 1)

\* bit k of basis-state index b (qubit k's value)
Bit(b, k) == (b \div Pow2(k)) % 2

\* b with qubit k set to v
SetBit(b, k, v) == b - Bit(b, k) * Pow2(k) + v * Pow2(k)

Entry(M, r, c) == M[r + 1][c + 1]

RECURSIVE SumTo(_, _)
SumTo(f, n) == IF n = 0 THEN 0 ELSE f[n] + SumTo(f, n - 1)

MatMul(A, B) ==
    [r \in 1..Len(A) |->
        [c \in 1..Len(A) |->
            SumTo([k \in 1..Len(A) |-> A[r][k] * B[k][c]], Len(A))]]

MatVec(A, v) ==
    [r \in 1..Len(A) |-> SumTo([k \in 1..Len(A) |-> A[r][k] * v[k]], Len(A))]

Identity(d) == [r \in 1..d |-> [c \in 1..d |-> IF r = c THEN 1 ELSE 0]]

(***************************************************************************)
(* The primitive gates of the decompositions (qiskit.extensions.standard.x)*)
(***************************************************************************)
\* CXGate: qubit 0 controls, qubit 1 is the target
CXGate_to_matrix ==
    << <<1, 0, 0, 0>>,
       <<0, 0, 0, 1>>,
       <<0, 0, 1, 0>>,
       <<0, 1, 0, 0>> >>

\* CCXGate: qubits 0 and 1 control, qubit 2 is the target
CCXGate_to_matrix ==
    << <<1, 0, 0, 0, 0, 0, 0, 0>>,
       <<0, 1, 0, 0, 0, 0, 0, 0>>,
       <<0, 0, 1, 0, 0, 0, 0, 0>>,
       <<0, 0, 0, 0, 0, 0, 0, 1>>,
       <<0, 0, 0, 0, 1, 0, 0, 0>>,
       <<0, 0, 0, 0, 0, 1, 0, 0>>,
       <<0, 0, 0, 0, 0, 0, 1, 0>>,
       <<0, 0, 0, 1, 0, 0, 0, 0>> >>

PrimitiveMatrix(g) ==
    IF g = "CXGate" THEN CXGate_to_matrix ELSE CCXGate_to_matrix

\* the index, in a gate's own 2^k space, of the values basis state b gives
\* the gate's qubits: qargs[1] is the gate's qubit 0
RECURSIVE LocalIndex(_, _, _)
LocalIndex(b, qargs, k) ==
    IF k = 0 THEN 0
    ELSE Bit(b, qargs[k]) * Pow2(k - 1) + LocalIndex(b, qargs, k - 1)

Range(s) == {s[i] : i \in DOMAIN s}

\* the matrix of sub-gate matrix M acting on qubits qargs of an n-qubit register
Embed(M, qargs, n) ==
    [r \in 1..Pow2(n) |->
        [c \in 1..Pow2(n) |->
            IF \A q \in (0..(n - 1)) \ Range(qargs) : Bit(r - 1, q) = Bit(c - 1, q)
            THEN Entry(M, LocalIndex(r - 1, qargs, Len(qargs)),
                          LocalIndex(c - 1, qargs, Len(qargs)))
            ELSE 0]]

\* the matrix product of a rule's sub-gates, the first applied first
RECURSIVE Compose(_, _, _)
Compose(rule, n, k) ==
    IF k = 0 THEN Identity(Pow2(n))
    ELSE MatMul(Embed(PrimitiveMatrix(rule[k].gate), rule[k].qargs, n),
                Compose(rule, n, k - 1))

(***************************************************************************)
(* SwapGate                                                                *)
(***************************************************************************)
\* SwapGate.__init__: super().__init__('swap', 2, [])
SwapGate_init ==
    [cls |-> "SwapGate", name |-> "swap", num_qubits |-> 2, params |-> <<>>,
     num_ctrl_qubits |-> 0, base_gate |-> None, definition |-> None]

\* a decomposition whose middle CX does not reverse control and target
SwapGate_define_unreversed ==
    << [gate |-> "CXGate", qargs |-> <<0, 1>>, cargs |-> <<>>],
       [gate |-> "CXGate", qargs |-> <<0, 1>>, cargs |-> <<>>],
       [gate |-> "CXGate", qargs |-> <<0, 1>>, cargs |-> <<>>] >>

\* SwapGate._define: gate swap a,b { cx a,b; cx b,a; cx a,b; }
SwapGate_define ==
    << [gate |-> "CXGate", qargs |-> <<0, 1>>, cargs |-> <<>>],
       [gate |-> "CXGate", qargs |-> <<1, 0>>, cargs |-> <<>>],
       [gate |-> "CXGate", qargs |-> <<0, 1>>, cargs |-> <<>>] >>

\* the CX matrix in place of the SWAP matrix
SwapGate_to_matrix_cx ==
    << <<1, 0, 0, 0>>,
       <<0, 0, 0, 1>>,
       <<0, 0, 1, 0>>,
       <<0, 1, 0, 0>> >>

SwapGate_to_matrix ==
    << <<1, 0, 0, 0>>,
       <<0, 0, 1, 0>>,
       <<0, 1, 0, 0>>,
       <<0, 0, 0, 1>> >>

\* a shortcut that compares ctrl_state by value: taken as well for an explicit
\* state with every control active
SwapGate_control_shortcut_by_value(num_ctrl_qubits, ctrl_state) ==
    /\ num_ctrl_qubits = 1
    /\ ctrl_state \in {None, <<Pow2(num_ctrl_qubits) - 1>>}

\* the condition under which SwapGate.control returns CSwapGate() itself
SwapGate_control_shortcut(num_ctrl_qubits, ctrl_state) ==
    ctrl_state = None /\ num_ctrl_qubits = 1

(***************************************************************************)
(* CSwapGate and FredkinGate                                               *)
(***************************************************************************)
\* CSwapGate.__init__: super().__init__('cswap', 3, [], num_ctrl_qubits=1)
\* and self.base_gate = SwapGate()
CSwapGate_init ==
    [cls |-> "CSwapGate", name |-> "cswap", num_qubits |-> 3, params |-> <<>>,
     num_ctrl_qubits |-> 1, base_gate |-> <<SwapGate_init>>, definition |-> None]

\* CSwapGate._define: gate cswap a,b,c { cx c,b; ccx a,b,c; cx c,b; }
CSwapGate_define ==
    << [gate |-> "CXGate",  qargs |-> <<2, 1>>,    cargs |-> <<>>],
       [gate |-> "CCXGate", qargs |-> <<0, 1, 2>>, cargs |-> <<>>],
       [gate |-> "CXGate",  qargs |-> <<2, 1>>,    cargs |-> <<>>] >>

\* the textbook matrix of the class docstring: control on the most
\* significant qubit
CSwapGate_to_matrix_textbook ==
    << <<1, 0, 0, 0, 0, 0, 0, 0>>,
       <<0, 1, 0, 0, 0, 0, 0, 0>>,
       <<0, 0, 1, 0, 0, 0, 0, 0>>,
       <<0, 0, 0, 1, 0, 0, 0, 0>>,
       <<0, 0, 0, 0, 1, 0, 0, 0>>,
       <<0, 0, 0, 0, 0, 0, 1, 0>>,
       <<0, 0, 0, 0, 0, 1, 0, 0>>,
       <<0, 0, 0, 0, 0, 0, 0, 1>> >>

CSwapGate_to_matrix ==
    << <<1, 0, 0, 0, 0, 0, 0, 0>>,
       <<0, 1, 0, 0, 0, 0, 0, 0>>,
       <<0, 0, 1, 0, 0, 0, 0, 0>>,
       <<0, 0, 0, 0, 0, 1, 0, 0>>,
       <<0, 0, 0, 0, 1, 0, 0, 0>>,
       <<0, 0, 0, 1, 0, 0, 0, 0>>,
       <<0, 0, 0, 0, 0, 0, 1, 0>>,
       <<0, 0, 0, 0, 0, 0, 0, 1>> >>

\* the notice FredkinGate.__init__ hands to warnings.warn
FredkinGate_warning ==
    [category |-> "DeprecationWarning",
     message  |-> "The class FredkinGate is deprecated as of 0.14.0; use CSwapGate"]

\* a constructor that emits no notice
FredkinGate_warn_missing(w) == w

\* FredkinGate.__init__, first statement: the warnings after warnings.warn(...)
FredkinGate_warn(w) == Append(w, FredkinGate_warning)

\* an alias that names its gate after itself
FredkinGate_init_own_name ==
    [cls |-> "FredkinGate", name |-> "fredkin", num_qubits |-> 3, params |-> <<>>,
     num_ctrl_qubits |-> 1, base_gate |-> <<SwapGate_init>>, definition |-> None]

\* FredkinGate.__init__, second statement: super().__init__() on a FredkinGate
FredkinGate_init == [CSwapGate_init EXCEPT !.cls = "FredkinGate"]

\* an instance check on the exact type
CSwapMeta_instancecheck_exact(against, inst) == inst.cls = against

\* CSwapMeta.__instancecheck__(mcs, inst): the class asked against is not read
CSwapMeta_instancecheck(against, inst) ==
    inst.cls \in {"CSwapGate", "FredkinGate"}

\* the classes whose metaclass is CSwapMeta
CSwapMetaClasses == {"CSwapGate", "FredkinGate"}

(***************************************************************************)
(* Method resolution: FredkinGate inherits every method but __init__ from  *)
(* CSwapGate.                                                              *)
(***************************************************************************)
to_matrix(g) ==
    IF g.cls = "SwapGate" THEN SwapGate_to_matrix ELSE CSwapGate_to_matrix

\* the list _define builds and stores in self.definition
define(g) ==
    IF g.cls = "SwapGate" THEN SwapGate_define ELSE CSwapGate_define

\* an inverse that returns SwapGate() in both classes
inverse_always_swap(g) == SwapGate_init

\* inverse: SwapGate() for a SwapGate, CSwapGate() for a CSwapGate or FredkinGate
inverse(g) ==
    IF g.cls = "SwapGate" THEN SwapGate_init ELSE CSwapGate_init

\* a qubit list with the control last
cswap_qargs_control_last(control_qubit, target_qubit1, target_qubit2) ==
    <<target_qubit1, target_qubit2, control_qubit>>

\* the qubit list cswap hands to append
cswap_qargs(control_qubit, target_qubit1, target_qubit2) ==
    <<control_qubit, target_qubit1, target_qubit2>>

\* the qubit list swap hands to append
swap_qargs(qubit1, qubit2) == <<qubit1, qubit2>>

(***************************************************************************)
(* State                                                                   *)
(***************************************************************************)
Init ==
    /\ gates = <<>>
    /\ circuit = <<>>
    /\ warnings = <<>>
    /\ fredkinCalls = 0
    /\ result = [op |-> "none"]

Room == Len(gates) + Len(circuit) < MaxObjects

Fresh == Len(gates) + 1

(***************************************************************************)
(* Constructors                                                            *)
(***************************************************************************)
NewSwapGate ==
    /\ Room
    /\ gates' = Append(gates, SwapGate_init)
    /\ result' = [op |-> "SwapGate", ret |-> Fresh]
    /\ UNCHANGED <<circuit, warnings, fredkinCalls>>

NewCSwapGate ==
    /\ Room
    /\ gates' = Append(gates, CSwapGate_init)
    /\ result' = [op |-> "CSwapGate", ret |-> Fresh]
    /\ UNCHANGED <<circuit, warnings, fredkinCalls>>

NewFredkinGate ==
    /\ Room
    /\ fredkinCalls' = fredkinCalls + 1
    /\ warnings' = FredkinGate_warn(warnings)
    /\ gates' = Append(gates, FredkinGate_init)
    /\ result' = [op |-> "FredkinGate", ret |-> Fresh]
    /\ UNCHANGED circuit

(***************************************************************************)
(* Queries on an instance                                                  *)
(***************************************************************************)
ToMatrix(i) ==
    /\ result' = [op |-> "to_matrix", self |-> i, value |-> to_matrix(gates[i])]
    /\ UNCHANGED <<gates, circuit, warnings, fredkinCalls>>

\* _define stores the list in self.definition; the caller reads it there
Define(i) ==
    /\ gates' = [gates EXCEPT ![i].definition = define(gates[i])]
    /\ result' = [op |-> "_define", self |-> i, value |-> gates'[i].definition]
    /\ UNCHANGED <<circuit, warnings, fredkinCalls>>

Inverse(i) ==
    /\ Room
    /\ gates' = Append(gates, inverse(gates[i]))
    /\ result' = [op |-> "inverse", self |-> i, ret |-> Fresh]
    /\ UNCHANGED <<circuit, warnings, fredkinCalls>>

\* SwapGate.control: CSwapGate() on the shortcut, Gate.control(...) otherwise
Control(i, num_ctrl_qubits, label, ctrl_state) ==
    /\ gates[i].cls = "SwapGate"
    /\ IF SwapGate_control_shortcut(num_ctrl_qubits, ctrl_state)
       THEN /\ Room
            /\ gates' = Append(gates, CSwapGate_init)
            /\ result' = [op |-> "control", self |-> i,
                          num_ctrl_qubits |-> num_ctrl_qubits, label |-> label,
                          ctrl_state |-> ctrl_state,
                          path |-> "CSwapGate", ret |-> Fresh]
       ELSE /\ gates' = gates
            /\ result' = [op |-> "control", self |-> i,
                          num_ctrl_qubits |-> num_ctrl_qubits, label |-> label,
                          ctrl_state |-> ctrl_state,
                          path |-> "super().control", ret |-> 0]
    /\ UNCHANGED <<circuit, warnings, fredkinCalls>>

IsInstance(i, against) ==
    /\ result' = [op |-> "isinstance", self |-> i, against |-> against,
                  value |-> CSwapMeta_instancecheck(against, gates[i])]
    /\ UNCHANGED <<gates, circuit, warnings, fredkinCalls>>

(***************************************************************************)
(* Convenience methods of QuantumCircuit                                   *)
(***************************************************************************)
\* self.append(SwapGate(), [qubit1, qubit2], [])
Swap(qubit1, qubit2) ==
    /\ Room
    /\ circuit' = Append(circuit, [gate |-> SwapGate_init,
                                   qargs |-> swap_qargs(qubit1, qubit2),
                                   cargs |-> <<>>])
    /\ result' = [op |-> "swap", qubits |-> <<qubit1, qubit2>>,
                  before |-> Len(circuit)]
    /\ UNCHANGED <<gates, warnings, fredkinCalls>>

\* QuantumCircuit.cswap and QuantumCircuit.fredkin are the same function:
\* self.append(CSwapGate(), [control_qubit, target_qubit1, target_qubit2], [])
CSwap(method, control_qubit, target_qubit1, target_qubit2) ==
    /\ Room
    /\ circuit' = Append(circuit,
                         [gate |-> CSwapGate_init,
                          qargs |-> cswap_qargs(control_qubit, target_qubit1,
                                                target_qubit2),
                          cargs |-> <<>>])
    /\ result' = [op |-> method,
                  qubits |-> <<control_qubit, target_qubit1, target_qubit2>>,
                  before |-> Len(circuit)]
    /\ UNCHANGED <<gates, warnings, fredkinCalls>>

CtrlStates(n) == {None} \cup {<<v>> : v \in 0..(Pow2(n) - 1)}

Labels == {None, <<"ctl">>}

Next ==
    \/ NewSwapGate
    \/ NewCSwapGate
    \/ NewFredkinGate
    \/ \E i \in DOMAIN gates : ToMatrix(i)
    \/ \E i \in DOMAIN gates : Define(i)
    \/ \E i \in DOMAIN gates : Inverse(i)
    \/ \E i \in DOMAIN gates : \E n \in 1..MaxCtrlQubits :
           \E l \in Labels : \E cs \in CtrlStates(n) : Control(i, n, l, cs)
    \/ \E i \in DOMAIN gates : \E c \in CSwapMetaClasses : IsInstance(i, c)
    \/ \E q1 \in CircuitQubits : \E q2 \in CircuitQubits \ {q1} : Swap(q1, q2)
    \/ \E m \in {"cswap", "fredkin"} :
           \E c \in CircuitQubits : \E t1 \in CircuitQubits \ {c} :
               \E t2 \in CircuitQubits \ {c, t1} : CSwap(m, c, t1, t2)

Spec == Init /\ [][Next]_vars

(***************************************************************************)
(* Operators the properties are stated with                                *)
(***************************************************************************)
\* basis state b with the values of qubits a and c exchanged
ExchangeBits(b, a, c) == SetBit(SetBit(b, a, Bit(b, c)), c, Bit(b, a))

\* where a swap of qubits a and c controlled by qubit ctl sends basis state b
ControlledSwapImage(b, ctl, a, c) ==
    IF Bit(b, ctl) = 1 THEN ExchangeBits(b, a, c) ELSE b

\* the 8x8 permutation matrix of that controlled swap
ControlledSwapMatrix(ctl, a, c) ==
    [r \in 1..8 |->
        [col \in 1..8 |->
            IF r - 1 = ControlledSwapImage(col - 1, ctl, a, c) THEN 1 ELSE 0]]

\* basis state b with the gate's qubit k - 1 (circuit qubit qargs[k]) given
\* the value it has in local index loc, for k = 1..n
RECURSIVE Scatter(_, _, _, _)
Scatter(b, qargs, loc, n) ==
    IF n = 0 THEN b
    ELSE Scatter(SetBit(b, qargs[n], Bit(loc, n - 1)), qargs, loc, n - 1)

\* the basis state an appended instruction sends basis state b to: the column
\* of the gate's matrix selected by b's values on the instruction's qubits
ApplyInstruction(inst, b) ==
    LET M   == to_matrix(inst.gate)
        col == LocalIndex(b, inst.qargs, Len(inst.qargs))
        row == CHOOSE r \in 0..(Len(M) - 1) : Entry(M, r, col) = 1
    IN  Scatter(b, inst.qargs, row, Len(inst.qargs))

\* a newly constructed gate of a class
NewInstance(cls) ==
    IF cls = "SwapGate" THEN SwapGate_init
    ELSE IF cls = "CSwapGate" THEN CSwapGate_init ELSE FredkinGate_init

StateVectors == [1..4 -> Amplitudes]

\* the decompositions the gate classes define, each with its register size
Decompositions ==
    {<<define(g), g.num_qubits>> : g \in {SwapGate_init, CSwapGate_init, FredkinGate_init}}

\* the matrix product of each decomposition
ComposedMatrix ==
    [d \in Decompositions |-> Compose(d[1], d[2], Len(d[1]))]

CircuitStates == 0..(Pow2(Cardinality(CircuitQubits)) - 1)

(***************************************************************************)
(* Properties                                                              *)
(***************************************************************************)
\* C1: the matrix product of the sub-gates a decomposition lists, each on its
\* declared local qubits and in the declared order, equals the matrix
\* to_matrix returns for the same gate, entry for entry.
C1_DecompositionEqualsMatrix ==
    result.op = "_define" =>
        LET g == gates[result.self]
        IN  /\ <<result.value, g.num_qubits>> \in Decompositions
            /\ ComposedMatrix[<<result.value, g.num_qubits>>] = to_matrix(g)

C1_Witness ==
    /\ result.op = "_define"
    /\ gates[result.self].cls = "CSwapGate"
    /\ Len(result.value) = 3

C3_ShortcutIffImplicitSingleControl ==
    result.op = "control" =>
        /\ (result.path = "CSwapGate") <=>
               (result.num_ctrl_qubits = 1 /\ result.ctrl_state = None)
        /\ result.path \in {"CSwapGate", "super().control"}
        /\ result.path = "CSwapGate" => gates[result.ret] = CSwapGate_init

C3_Witness ==
    /\ result.op = "control"
    /\ result.num_ctrl_qubits = 1
    /\ result.ctrl_state = <<1>>
    /\ result.path = "super().control"

\* C4: the gate inverse returns has a matrix whose product with the matrix of
\* the gate it was called on is the identity, and the inverse of that gate
\* has the matrix of the original.
C4_InverseMatrixProductIsIdentity ==
    result.op = "inverse" =>
        LET g == gates[result.self]
            h == gates[result.ret]
        IN  /\ h.num_qubits = g.num_qubits
            /\ MatMul(to_matrix(g), to_matrix(h)) = Identity(Pow2(g.num_qubits))
            /\ to_matrix(inverse(h)) = to_matrix(g)

C4_Witness ==
    /\ result.op = "inverse"
    /\ gates[result.self].cls = "CSwapGate"
    /\ result.ret # result.self

C6_NamesInterchangeable ==
    (result.op = "isinstance" /\ gates[result.self].cls \in {"CSwapGate", "FredkinGate"})
        => result.value = TRUE

C6_Witness ==
    /\ result.op = "isinstance"
    /\ gates[result.self].cls = "CSwapGate"
    /\ result.against = "FredkinGate"
    /\ result.value = TRUE

\* C7: a gate built as FredkinGate and one built as CSwapGate have the same
\* name, arity, control count and base gate, and the same matrix,
\* decomposition and inverse.
C7_AliasBehavesAsCanonical ==
    \A i \in DOMAIN gates : \A j \in DOMAIN gates :
        (gates[i].cls = "FredkinGate" /\ gates[j].cls = "CSwapGate") =>
            /\ gates[i].name = "cswap" /\ gates[j].name = "cswap"
            /\ gates[i].num_qubits = 3 /\ gates[j].num_qubits = 3
            /\ gates[i].num_ctrl_qubits = 1 /\ gates[j].num_ctrl_qubits = 1
            /\ gates[i].base_gate = <<SwapGate_init>>
            /\ gates[j].base_gate = <<SwapGate_init>>
            /\ gates[i].params = gates[j].params
            /\ to_matrix(gates[i]) = to_matrix(gates[j])
            /\ define(gates[i]) = define(gates[j])
            /\ to_matrix(inverse(gates[i])) = to_matrix(inverse(gates[j]))

C7_Witness ==
    \E i \in DOMAIN gates : \E j \in DOMAIN gates :
        gates[i].cls = "FredkinGate" /\ gates[j].cls = "CSwapGate"

\* C8: the matrix of SWAP exchanges amplitudes 1 and 2 of every 4-dimensional
\* state vector and leaves amplitudes 0 and 3 alone.
C8_SwapExchangesAmplitudes1And2 ==
    (result.op = "to_matrix" /\ gates[result.self].cls = "SwapGate") =>
        /\ Len(result.value) = 4
        /\ \A v \in StateVectors :
               MatVec(result.value, v) = <<v[1], v[3], v[2], v[4]>>

C8_Witness ==
    /\ result.op = "to_matrix"
    /\ gates[result.self].cls = "SwapGate"
    /\ Entry(result.value, 1, 2) = 1

\* C9: no query changes the state of an existing instance (its name, arity,
\* parameters, control count, base gate and stored definition), every query
\* returns what it returns on a newly constructed gate, and inverse never
\* returns the instance it was called on.
C9_QueriesLeaveInstancesUnchanged ==
    [][/\ \A i \in DOMAIN gates : gates'[i] = gates[i]
       /\ result'.op = "inverse" => result'.ret # result'.self
       /\ result'.op = "to_matrix" =>
              result'.value = to_matrix(NewInstance(gates[result'.self].cls))
       /\ result'.op = "_define" =>
              result'.value = define(NewInstance(gates[result'.self].cls))]_vars

====
